---- MODULE Spec2Model ----
(***************************************************************************)
(* A model of the image cache service (internal/resizers, application):    *)
(* the resize and get-image handlers, the Service behind them, the worker  *)
(* goroutines it starts, its job registry (Service.workers), its cache and *)
(* the timestamp table (Service.cacheDeadline) with the TTL sweep.         *)
(*                                                                         *)
(* Every goroutine is a process that takes one step per access to shared   *)
(* state (the cache, the two sync.Maps, a channel); steps that touch only  *)
(* a goroutine's own locals are merged into the shared access they lead to.*)
(***************************************************************************)
EXTENDS Integers, Sequences, FiniteSets, TLC

VARIABLES
    cache,          \* Service.cache: the LRU's entries, most recently used first
    cacheDeadline,  \* Service.cacheDeadline: key -> time of the last Store
    workers,        \* Service.workers: key -> the job whose WorkerResizeResult is stored
    jobs,           \* the worker goroutines started so far, in order of creation
    req,            \* the resize requests being served, one per client connection
    get,            \* the get-image requests being served, one per client connection
    sweep,          \* the goroutine of StartCacheEviction
    now,            \* the wall clock (time.Now), in seconds
    posts,          \* the number of resize requests accepted so far
    posted,         \* the number of URLs in the resize requests accepted so far
    gets,           \* the number of get-image requests accepted so far
    workerHandler   \* the context of Application.Run and the goroutines of StartWorkerHandler

vars == <<cache, cacheDeadline, workers, jobs, req, get, sweep, now, posts, posted, gets,
          workerHandler>>

----------------------------------------------------------------------------
(* Bounds of the model.                                                    *)

MaxURLs == 2
MaxJobs == 2
MaxTime == 8
CacheSize == 1
MaxPosts == 2
MaxPosted == 3
MaxGets == 1

URLs == {"a", "b"}
Dims == {<<100, 100>>}
TwoDims == {<<100, 100>>, <<200, 200>>}
Clients == {"c1"}
Getters == {"g1"}

(* The values of the async query parameter a client may send: None when    *)
(* the parameter is absent, otherwise the first value of the parameter.    *)
None == "<none>"
QueryValues == {None, "true", "1", "false", "yes"}

----------------------------------------------------------------------------
(* Constants of the program.                                               *)

proto == "http://"
hostport == "localhost:8080"
success == "success"
inProgress == "in-progress"
failure == "failure"
imageURLOutputPath == "/v1/image/"
jpegExtension == ".jpeg"
errContextCancelled == "context was cancelled"

TTL == 5
SweepInterval == 2

StatusOK == 200
StatusCreated == 201
StatusBadRequest == 400
StatusNotFound == 404
StatusRequestTimeout == 408
StatusInternalServerError == 500

----------------------------------------------------------------------------
(* Keys and URLs.  A string built by fmt.Sprintf is the sequence of its    *)
(* parts; the sha256/base64 digest of a URL is a token that differs for    *)
(* different URLs.                                                         *)

genID(url) == <<"sha256", url>>

newURL(key) == <<proto, hostport>> \o key

genKey(url) == <<imageURLOutputPath>> \o genID(url) \o <<jpegExtension>>

Keys == {genKey(u) : u \in URLs}

(* The bytes that resize produces from the image fetched at url.           *)
resize(url, dims) == <<"jpeg", url, dims[1], dims[2]>>

NoData == <<>>
NoJob == 0
NoTime == -1
NoURL == <<>>

----------------------------------------------------------------------------
(* The LRU cache (github.com/hashicorp/golang-lru) as the Service uses it. *)

RECURSIVE without(_, _)
without(c, key) ==
    IF c = <<>> THEN <<>>
    ELSE IF Head(c).key = key THEN without(Tail(c), key)
    ELSE <<Head(c)>> \o without(Tail(c), key)

cacheContains(c, key) == \E i \in 1..Len(c) : c[i].key = key

cacheIndex(c, key) == (CHOOSE i \in 1..Len(c) : c[i].key = key)

(* The value stored under key, NoData when there is none.                  *)
cacheLookup(c, key) ==
    IF cacheContains(c, key) THEN c[cacheIndex(c, key)].val ELSE NoData

(* Get returns the value and makes the entry the most recently used.       *)
cacheGet(c, key) ==
    IF cacheContains(c, key)
    THEN <<[key |-> key, val |-> c[cacheIndex(c, key)].val]>> \o without(c, key)
    ELSE c

(* Add puts the entry in front, replacing the value of a key already       *)
(* there, and drops the least recently used entry when over capacity.      *)
cacheAdd(c, key, val) ==
    LET added == <<[key |-> key, val |-> val]>> \o without(c, key)
    IN  IF Len(added) > CacheSize THEN SubSeq(added, 1, CacheSize) ELSE added

cacheRemove(c, key) == without(c, key)

----------------------------------------------------------------------------
(* The resize handler's reading of the async query parameter.              *)

(* strconv.ParseBool: the value and whether the string is a boolean.       *)
ParseBool(str) ==
    IF str \in {"1", "t", "T", "TRUE", "true", "True"}
    THEN [value |-> TRUE, ok |-> TRUE]
    ELSE IF str \in {"0", "f", "F", "FALSE", "false", "False"}
    THEN [value |-> FALSE, ok |-> TRUE]
    ELSE [value |-> FALSE, ok |-> FALSE]

(* A handler that lets the decoded body set request.Async as well.         *)
requestAsyncFromBody(query, bodyAsync) ==
    bodyAsync \/ (query # None /\ ParseBool(query).value)

(* request.Async after the handler has decoded the body (the Async field   *)
(* is json:"-", so the body leaves it false) and read the query.           *)
requestAsync(query, bodyAsync) ==
    IF query # None THEN ParseBool(query).value ELSE FALSE

----------------------------------------------------------------------------
(* The state in which Application.Run begins to listen: NewService and     *)
(* StartWorkerHandler have been called, StartCacheEviction has not.  The   *)
(* bridge of getWorkerWorkStream and the cleaner of startWorkerCleaner are *)
(* each at the select of their loop, and the context is live.              *)

URLLists == UNION {[1..n -> URLs] : n \in 0..MaxURLs}

idleRequest ==
    [pc |-> "idle", query |-> None, Async |-> FALSE, urls |-> <<>>,
     dims |-> <<0, 0>>, i |-> 0, results |-> <<>>, job |-> NoJob, status |-> 0]

idleGet ==
    [pc |-> "idle", key |-> <<>>, job |-> NoJob, cancelled |-> FALSE,
     ctxFirst |-> FALSE, data |-> NoData, err |-> None, status |-> 0]

Init ==
    /\ cache = <<>>
    /\ cacheDeadline = [k \in Keys |-> NoTime]
    /\ workers = [k \in Keys |-> NoJob]
    /\ jobs = <<>>
    /\ req = [c \in Clients |-> idleRequest]
    /\ get = [g \in Getters |-> idleGet]
    /\ sweep = [pc |-> "off", next |-> 0, todo |-> {}, cur |-> <<>>]
    /\ now = 0
    /\ posts = 0
    /\ posted = 0
    /\ gets = 0
    /\ workerHandler = [cancelled |-> FALSE, bridge |-> "select", cleaner |-> "select",
                        bridgeStream |-> "open"]

----------------------------------------------------------------------------
(* resizeAndCache, shared by the synchronous path and the workers: after   *)
(* fetchAndResize has succeeded, cache.Add and then cacheDeadline.Store.   *)

(* A resize whose output buffer is never written out: no bytes are cached. *)
resizeAndCacheAddEmpty(key, url, dims) ==
    cache' = cacheAdd(cache, key, NoData)

resizeAndCacheAdd(key, url, dims) ==
    cache' = cacheAdd(cache, key, resize(url, dims))

resizeAndCacheStore(key) ==
    cacheDeadline' = [cacheDeadline EXCEPT ![key] = now]

----------------------------------------------------------------------------
(* The resize endpoint: MakeResizeHandler and ProcessResizes.              *)

currentURL(r) == r.urls[r.i + 1]

(* The loop of processResizes{Sync,Async} goes on to the next URL, or the  *)
(* handler writes the results with 201 Created.                            *)
nextURL(r) ==
    IF r.i = Len(r.urls)
    THEN [r EXCEPT !.pc = "done", !.status = StatusCreated]
    ELSE [r EXCEPT !.pc = "check"]

(* A loop that returns at the first failure instead of going on.           *)
emitOrAbort(r, result) ==
    IF result.Result = failure
    THEN [r EXCEPT !.results = Append(@, result), !.i = @ + 1, !.job = NoJob,
                   !.pc = "done", !.status = StatusCreated]
    ELSE nextURL([r EXCEPT !.results = Append(@, result), !.i = @ + 1, !.job = NoJob])

emit(r, result) ==
    nextURL([r EXCEPT !.results = Append(@, result), !.i = @ + 1, !.job = NoJob])

(* The workers that the asynchronous requests in progress may still start. *)
RECURSIVE reserved(_)
reserved(cs) ==
    IF cs = {} THEN 0
    ELSE LET c == CHOOSE x \in cs : TRUE
             r == req[c]
             n == IF r.Async /\ r.pc \in {"call", "check", "store"}
                  THEN Len(r.urls) - r.i - (IF r.pc = "store" THEN 1 ELSE 0)
                  ELSE 0
         IN  n + reserved(cs \ {c})

(* A client sends a request to /v1/resize: the handler checks the method,  *)
(* decodes the body and reads the async query parameter into request.Async.*)
(* lists, dimensions and queries are the inputs the clients may send.      *)
MakeResizeHandler(c, lists, dimensions, queries) ==
    /\ req[c].pc \in {"idle", "done"}
    /\ posts < MaxPosts
    /\ posts' = posts + 1
    /\ \/ \* r.Method != http.MethodPost
          /\ req' = [req EXCEPT ![c] =
                        [idleRequest EXCEPT !.pc = "done", !.status = StatusNotFound]]
          /\ UNCHANGED posted
       \/ \* the body does not decode
          /\ req' = [req EXCEPT ![c] =
                        [idleRequest EXCEPT !.pc = "done", !.status = StatusBadRequest]]
          /\ UNCHANGED posted
       \/ \E urls \in lists, dims \in dimensions, query \in queries, bodyAsync \in BOOLEAN :
             LET async == requestAsync(query, bodyAsync)
             IN  /\ async => Len(jobs) + reserved(Clients \ {c}) + Len(urls) <= MaxJobs
                 /\ posted + Len(urls) <= MaxPosted
                 /\ posted' = posted + Len(urls)
                 /\ req' = [req EXCEPT ![c] =
                               [idleRequest EXCEPT !.pc = "call", !.query = query,
                                   !.Async = async, !.urls = urls, !.dims = dims]]
    /\ UNCHANGED <<cache, cacheDeadline, workers, jobs, get, sweep, now, gets, workerHandler>>

(* The handler calls ProcessResizes, which switches on request.Async; the  *)
(* handler's own locals (the query) are not used after this.               *)
ProcessResizes(c) ==
    /\ req[c].pc = "call"
    /\ req' = [req EXCEPT ![c] = nextURL([req[c] EXCEPT !.query = None])]
    /\ UNCHANGED <<cache, cacheDeadline, workers, jobs, get, sweep, now, posts, posted, gets, workerHandler>>

(* processResizesSync: cache.Contains for the next URL.                    *)
processResizesSyncContains(c) ==
    LET r == req[c]
        key == genKey(currentURL(r))
    IN  /\ r.pc = "check"
        /\ ~r.Async
        /\ req' = [req EXCEPT ![c] =
              IF cacheContains(cache, key)
              THEN emit(r, [Result |-> success, URL |-> newURL(key), Cached |-> TRUE])
              ELSE [r EXCEPT !.pc = "resize"]]
        /\ UNCHANGED <<cache, cacheDeadline, workers, jobs, get, sweep, now, posts, posted, gets, workerHandler>>

(* processResizesSync: resizeAndCache up to cache.Add, or its error.       *)
processResizesSyncResize(c) ==
    LET r == req[c]
        key == genKey(currentURL(r))
    IN  /\ r.pc = "resize"
        /\ \E fetched \in BOOLEAN :
              IF fetched
              THEN /\ resizeAndCacheAdd(key, currentURL(r), r.dims)
                   /\ req' = [req EXCEPT ![c].pc = "stamp"]
              ELSE /\ req' = [req EXCEPT ![c] =
                          emit(r, [Result |-> failure, URL |-> NoURL, Cached |-> FALSE])]
                   /\ UNCHANGED cache
        /\ UNCHANGED <<cacheDeadline, workers, jobs, get, sweep, now, posts, posted, gets, workerHandler>>

(* A synchronous path that clears the registry entry of the key it cached. *)
processResizesSyncStoreDelete(c) ==
    LET r == req[c]
        key == genKey(currentURL(r))
    IN  /\ r.pc = "stamp"
        /\ resizeAndCacheStore(key)
        /\ workers' = [workers EXCEPT ![key] = NoJob]
        /\ req' = [req EXCEPT ![c] =
              emit(r, [Result |-> success, URL |-> newURL(key), Cached |-> FALSE])]
        /\ UNCHANGED <<cache, jobs, get, sweep, now, posts, posted, gets, workerHandler>>

(* processResizesSync: the end of resizeAndCache and the success result.   *)
processResizesSyncStore(c) ==
    LET r == req[c]
        key == genKey(currentURL(r))
    IN  /\ r.pc = "stamp"
        /\ resizeAndCacheStore(key)
        /\ req' = [req EXCEPT ![c] =
              emit(r, [Result |-> success, URL |-> newURL(key), Cached |-> FALSE])]
        /\ UNCHANGED <<cache, workers, jobs, get, sweep, now, posts, posted, gets, workerHandler>>

(* newResizeWorker: the goroutine started for the request's current URL.   *)
newResizeWorker(key, url, dims) ==
    [key |-> key, url |-> url, dims |-> dims, pc |-> "run", err |-> FALSE, done |-> FALSE]

(* A loop that starts a worker without asking the cache first.             *)
processResizesAsyncNoContains(c) ==
    LET r == req[c]
        key == genKey(currentURL(r))
    IN  /\ r.pc = "check"
        /\ r.Async
        /\ jobs' = Append(jobs, newResizeWorker(key, currentURL(r), r.dims))
        /\ req' = [req EXCEPT ![c] = [r EXCEPT !.pc = "store", !.job = Len(jobs) + 1]]
        /\ UNCHANGED <<cache, cacheDeadline, workers, get, sweep, now, posts, posted, gets, workerHandler>>

(* processResizesAsync: cache.Contains for the next URL and, when the key  *)
(* is not cached, the start of a worker.                                   *)
processResizesAsyncContains(c) ==
    LET r == req[c]
        key == genKey(currentURL(r))
    IN  /\ r.pc = "check"
        /\ r.Async
        /\ IF cacheContains(cache, key)
           THEN /\ req' = [req EXCEPT ![c] =
                       emit(r, [Result |-> success, URL |-> newURL(key), Cached |-> TRUE])]
                /\ UNCHANGED jobs
           ELSE /\ jobs' = Append(jobs, newResizeWorker(key, currentURL(r), r.dims))
                /\ req' = [req EXCEPT ![c] = [r EXCEPT !.pc = "store", !.job = Len(jobs) + 1]]
        /\ UNCHANGED <<cache, cacheDeadline, workers, get, sweep, now, posts, posted, gets, workerHandler>>

(* A request that waits for its worker before it answers.                  *)
processResizesAsyncStoreWaiting(c) ==
    LET r == req[c]
        key == genKey(currentURL(r))
    IN  /\ r.pc = "store"
        /\ jobs[r.job].done
        /\ workers' = [workers EXCEPT ![key] = r.job]
        /\ req' = [req EXCEPT ![c] =
              emit(r, [Result |-> inProgress, URL |-> newURL(key), Cached |-> FALSE])]
        /\ UNCHANGED <<cache, cacheDeadline, jobs, get, sweep, now, posts, posted, gets, workerHandler>>

(* makeWorkerResizeImage: workers.Store, then the in-progress result.      *)
processResizesAsyncStore(c) ==
    LET r == req[c]
        key == genKey(currentURL(r))
    IN  /\ r.pc = "store"
        /\ workers' = [workers EXCEPT ![key] = r.job]
        /\ req' = [req EXCEPT ![c] =
              emit(r, [Result |-> inProgress, URL |-> newURL(key), Cached |-> FALSE])]
        /\ UNCHANGED <<cache, cacheDeadline, jobs, get, sweep, now, posts, posted, gets, workerHandler>>

----------------------------------------------------------------------------
(* The goroutine of newResizeWorker.  Its context is context.Background(), *)
(* so its select always takes the default branch.                          *)

(* A worker that caches what it has when the fetch or the resize failed.   *)
workerResizeCachingError(j) ==
    /\ jobs[j].pc = "run"
    /\ \E fetched \in BOOLEAN :
          /\ cache' = cacheAdd(cache, jobs[j].key,
                                IF fetched THEN resize(jobs[j].url, jobs[j].dims) ELSE NoData)
          /\ jobs' = [jobs EXCEPT ![j].pc = "stamp", ![j].err = ~fetched]
    /\ UNCHANGED <<cacheDeadline, workers, req, get, sweep, now, posts, posted, gets, workerHandler>>

(* A worker whose Close runs before resizeAndCache instead of after it.    *)
workerResizeAfterClose(j) ==
    /\ jobs[j].pc = "run"
    /\ IF ~jobs[j].done
       THEN /\ jobs' = [jobs EXCEPT ![j].done = TRUE]
            /\ UNCHANGED cache
       ELSE \E fetched \in BOOLEAN :
               IF fetched
               THEN /\ resizeAndCacheAdd(jobs[j].key, jobs[j].url, jobs[j].dims)
                    /\ jobs' = [jobs EXCEPT ![j].pc = "stamp"]
               ELSE /\ jobs' = [jobs EXCEPT ![j].pc = "delete", ![j].err = TRUE]
                    /\ UNCHANGED cache
    /\ UNCHANGED <<cacheDeadline, workers, req, get, sweep, now, posts, posted, gets, workerHandler>>

(* resizeAndCache up to cache.Add, or its error.                           *)
workerResize(j) ==
    /\ jobs[j].pc = "run"
    /\ \E fetched \in BOOLEAN :
          IF fetched
          THEN /\ resizeAndCacheAdd(jobs[j].key, jobs[j].url, jobs[j].dims)
               /\ jobs' = [jobs EXCEPT ![j].pc = "stamp"]
          ELSE /\ jobs' = [jobs EXCEPT ![j].pc = "delete", ![j].err = TRUE]
               /\ UNCHANGED cache
    /\ UNCHANGED <<cacheDeadline, workers, req, get, sweep, now, posts, posted, gets, workerHandler>>

(* The end of resizeAndCache: cacheDeadline.Store.                         *)
workerStore(j) ==
    /\ jobs[j].pc = "stamp"
    /\ resizeAndCacheStore(jobs[j].key)
    /\ jobs' = [jobs EXCEPT ![j].pc = "delete"]
    /\ UNCHANGED <<cache, workers, req, get, sweep, now, posts, posted, gets, workerHandler>>

(* workers.Delete(request.Key): whatever is stored under the key goes.     *)
workerDelete(j) ==
    /\ jobs[j].pc = "delete"
    /\ workers' = [workers EXCEPT ![jobs[j].key] = NoJob]
    /\ jobs' = [jobs EXCEPT ![j].pc = "close"]
    /\ UNCHANGED <<cache, cacheDeadline, req, get, sweep, now, posts, posted, gets, workerHandler>>

(* A Close that may be called again on a result already closed.            *)
CloseAgain(j) ==
    /\ jobs[j].pc \in {"close", "exit"}
    /\ jobs' = [jobs EXCEPT ![j].pc = "exit", ![j].done = TRUE]
    /\ UNCHANGED <<cache, cacheDeadline, workers, req, get, sweep, now, posts, posted, gets, workerHandler>>

(* A Close that closes the value channel and leaves done open.             *)
CloseValueOnly(j) ==
    /\ jobs[j].pc = "close"
    /\ jobs' = [jobs EXCEPT ![j].pc = "exit"]
    /\ UNCHANGED <<cache, cacheDeadline, workers, req, get, sweep, now, posts, posted, gets, workerHandler>>

(* The deferred WorkerResizeResult.Close: close(done), close(value).       *)
Close(j) ==
    /\ jobs[j].pc = "close"
    /\ jobs' = [jobs EXCEPT ![j].pc = "exit", ![j].done = TRUE]
    /\ UNCHANGED <<cache, cacheDeadline, workers, req, get, sweep, now, posts, posted, gets, workerHandler>>

----------------------------------------------------------------------------
(* The get-image endpoint: MakeGetImageHandler and GetImage.               *)

(* A handler that looks at the data before it looks at the error.          *)
getImageStatusDataFirst(data, err) ==
    IF data = NoData THEN StatusNotFound
    ELSE IF err = errContextCancelled THEN StatusRequestTimeout
    ELSE IF err # None THEN StatusInternalServerError
    ELSE StatusOK

(* The status the handler writes for what GetImage returned.               *)
getImageStatus(data, err) ==
    IF err # None /\ err # errContextCancelled THEN StatusInternalServerError
    ELSE IF err = errContextCancelled THEN StatusRequestTimeout
    ELSE IF data = NoData THEN StatusNotFound
    ELSE StatusOK

returned(g, data, err) ==
    [g EXCEPT !.pc = "done", !.data = data, !.err = err,
              !.status = getImageStatus(data, err)]

(* A client asks for /v1/image/...; waitIfImageIsStillInProgress loads the *)
(* key from the registry.  The client's context may already be cancelled.  *)
MakeGetImageHandler(g) ==
    /\ get[g].pc \in {"idle", "done"}
    /\ gets < MaxGets
    /\ gets' = gets + 1
    /\ \E key \in Keys, cancelled \in BOOLEAN :
          get' = [get EXCEPT ![g] =
              IF workers[key] # NoJob
              THEN [idleGet EXCEPT !.pc = "wait", !.key = key, !.job = workers[key],
                                   !.cancelled = cancelled,
                                   !.ctxFirst = cancelled /\ ~jobs[workers[key]].done]
              ELSE [idleGet EXCEPT !.pc = "read", !.key = key, !.cancelled = cancelled]]
    /\ UNCHANGED <<cache, cacheDeadline, workers, jobs, req, sweep, now, posts, posted, workerHandler>>

(* The client goes away or its deadline passes: r.Context() is cancelled.  *)
cancel(g) ==
    /\ get[g].pc \in {"wait", "read"}
    /\ ~get[g].cancelled
    /\ get' = [get EXCEPT ![g].cancelled = TRUE,
                          ![g].ctxFirst = get[g].pc = "wait" /\ ~jobs[get[g].job].done]
    /\ UNCHANGED <<cache, cacheDeadline, workers, jobs, req, sweep, now, posts, posted, gets, workerHandler>>

(* A wait that receives from the done channel only.                        *)
waitForDoneOnly(g) ==
    /\ get[g].pc = "wait"
    /\ jobs[get[g].job].done
    /\ get' = [get EXCEPT ![g].pc = "read"]
    /\ UNCHANGED <<cache, cacheDeadline, workers, jobs, req, sweep, now, posts, posted, gets, workerHandler>>

(* The select of waitIfImageIsStillInProgress: a ready case is taken, any  *)
(* of them when both are ready.                                            *)
waitIfImageIsStillInProgress(g) ==
    /\ get[g].pc = "wait"
    /\ \/ /\ get[g].cancelled
          /\ get' = [get EXCEPT ![g] = returned(get[g], NoData, errContextCancelled)]
       \/ /\ jobs[get[g].job].done
          /\ get' = [get EXCEPT ![g].pc = "read"]
    /\ UNCHANGED <<cache, cacheDeadline, workers, jobs, req, sweep, now, posts, posted, gets, workerHandler>>

(* GetImage after the wait: cache.Get.                                     *)
GetImage(g) ==
    LET key == get[g].key
    IN  /\ get[g].pc = "read"
        /\ cache' = cacheGet(cache, key)
        /\ get' = [get EXCEPT ![g] =
              IF cacheContains(cache, key)
              THEN returned(get[g], cacheLookup(cache, key), None)
              ELSE returned(get[g], NoData, None)]
        /\ UNCHANGED <<cacheDeadline, workers, jobs, req, sweep, now, posts, posted, gets, workerHandler>>

----------------------------------------------------------------------------
(* The context of Application.Run and the two goroutines that             *)
(* StartWorkerHandler starts under it.  Nothing calls watchProcess, so     *)
(* nothing is ever sent on workerResultStream: the bridge never gets a     *)
(* stream to relay and the cleaner never gets a key, and the only case of  *)
(* their selects that can become ready is ctx.Done() (for the cleaner, the *)
(* close of the bridge stream as well).                                    *)

(* Application.Run returns: its deferred cancel() cancels the context.     *)
RunCancel ==
    /\ ~workerHandler.cancelled
    /\ workerHandler' = [workerHandler EXCEPT !.cancelled = TRUE]
    /\ UNCHANGED <<cache, cacheDeadline, workers, jobs, req, get, sweep, now, posts, posted, gets>>

(* The bridge takes ctx.Done() and returns; its defer closes bridgeStream. *)
getWorkerWorkStream ==
    /\ workerHandler.bridge = "select"
    /\ workerHandler.cancelled
    /\ workerHandler' = [workerHandler EXCEPT !.bridge = "exit", !.bridgeStream = "closed"]
    /\ UNCHANGED <<cache, cacheDeadline, workers, jobs, req, get, sweep, now, posts, posted, gets>>

(* The cleaner takes ctx.Done(), or the receive from the closed            *)
(* workerWorkStream with ok false, and returns.                            *)
startWorkerCleaner ==
    /\ workerHandler.cleaner = "select"
    /\ workerHandler.cancelled \/ workerHandler.bridgeStream = "closed"
    /\ workerHandler' = [workerHandler EXCEPT !.cleaner = "exit"]
    /\ UNCHANGED <<cache, cacheDeadline, workers, jobs, req, get, sweep, now, posts, posted, gets>>

----------------------------------------------------------------------------
(* The goroutine of StartCacheEviction.  Application.Run does not call it. *)

StartCacheEviction ==
    /\ sweep.pc = "off"
    /\ sweep' = [sweep EXCEPT !.pc = "sleep", !.next = now + SweepInterval]
    /\ UNCHANGED <<cache, cacheDeadline, workers, jobs, req, get, now, posts, posted, gets, workerHandler>>

(* time.After(2 * time.Second) fires: cacheDeadline.Range begins.          *)
sweepTick ==
    /\ sweep.pc = "sleep"
    /\ now >= sweep.next
    /\ sweep' = [sweep EXCEPT !.pc = "range",
                              !.todo = {k \in Keys : cacheDeadline[k] # NoTime}]
    /\ UNCHANGED <<cache, cacheDeadline, workers, jobs, req, get, now, posts, posted, gets, workerHandler>>

(* The function Range calls for one key, up to cache.Remove.               *)
sweepVisit(key) ==
    LET calculatedTime == cacheDeadline[key] + TTL
    IN  /\ sweep.pc = "range"
        /\ key \in sweep.todo
        /\ IF cacheDeadline[key] = NoTime \/ calculatedTime < now
           THEN /\ sweep' = [sweep EXCEPT !.todo = @ \ {key}]
                /\ UNCHANGED cache
           ELSE /\ cache' = cacheRemove(cache, key)
                /\ sweep' = IF cacheContains(cache, key)
                            THEN [sweep EXCEPT !.todo = @ \ {key}, !.pc = "delete",
                                               !.cur = key]
                            ELSE [sweep EXCEPT !.todo = @ \ {key}]
        /\ UNCHANGED <<cacheDeadline, workers, jobs, req, get, now, posts, posted, gets, workerHandler>>

(* The same function after a successful Remove: cacheDeadline.Delete.      *)
sweepDelete ==
    /\ sweep.pc = "delete"
    /\ cacheDeadline' = [cacheDeadline EXCEPT ![sweep.cur] = NoTime]
    /\ sweep' = [sweep EXCEPT !.pc = "range", !.cur = <<>>]
    /\ UNCHANGED <<cache, workers, jobs, req, get, now, posts, posted, gets, workerHandler>>

(* The select of the loop takes ctx.Done(): the goroutine returns.         *)
sweepDone ==
    /\ sweep.pc = "sleep"
    /\ workerHandler.cancelled
    /\ sweep' = [sweep EXCEPT !.pc = "exit"]
    /\ UNCHANGED <<cache, cacheDeadline, workers, jobs, req, get, now, posts, posted, gets, workerHandler>>

(* Range has visited every key: the loop waits for the next timer.         *)
sweepEnd ==
    /\ sweep.pc = "range"
    /\ sweep.todo = {}
    /\ sweep' = [sweep EXCEPT !.pc = "sleep", !.next = now + SweepInterval]
    /\ UNCHANGED <<cache, cacheDeadline, workers, jobs, req, get, now, posts, posted, gets, workerHandler>>

----------------------------------------------------------------------------
(* Time passes.                                                            *)

tick ==
    /\ now < MaxTime
    /\ now' = now + 1
    /\ UNCHANGED <<cache, cacheDeadline, workers, jobs, req, get, sweep, posts, posted, gets, workerHandler>>

----------------------------------------------------------------------------
(* The service as Application.Run starts it: the two handlers and the      *)
(* workers; StartCacheEviction is not called, so there is no TTL sweep.    *)
(* Nothing in this composition reads the clock, which stays as it is.      *)

Next ==
    \/ \E c \in Clients : MakeResizeHandler(c, URLLists, Dims, QueryValues)
    \/ \E c \in Clients : ProcessResizes(c)
    \/ \E c \in Clients : processResizesSyncContains(c)
    \/ \E c \in Clients : processResizesSyncResize(c)
    \/ \E c \in Clients : processResizesSyncStore(c)
    \/ \E c \in Clients : processResizesAsyncContains(c)
    \/ \E c \in Clients : processResizesAsyncStore(c)
    \/ \E j \in 1..Len(jobs) : workerResize(j)
    \/ \E j \in 1..Len(jobs) : workerStore(j)
    \/ \E j \in 1..Len(jobs) : workerDelete(j)
    \/ \E j \in 1..Len(jobs) : Close(j)
    \/ \E g \in Getters : MakeGetImageHandler(g)
    \/ \E g \in Getters : cancel(g)
    \/ \E g \in Getters : waitIfImageIsStillInProgress(g)
    \/ \E g \in Getters : GetImage(g)

Spec == Init /\ [][Next]_vars

(* The Go scheduler runs every goroutine that can run: a worker goes on    *)
(* until it has exited (its fetch and resize end, with or without an       *)
(* error), and a GetImage call takes a ready case of its select and reads  *)
(* the cache.  Clients need not send anything, nor cancel.                 *)
Fairness ==
    /\ \A j \in 1..MaxJobs :
          /\ WF_vars(j \in 1..Len(jobs) /\ workerResize(j))
          /\ WF_vars(j \in 1..Len(jobs) /\ workerStore(j))
          /\ WF_vars(j \in 1..Len(jobs) /\ workerDelete(j))
          /\ WF_vars(j \in 1..Len(jobs) /\ Close(j))
    /\ \A g \in Getters :
          /\ WF_vars(waitIfImageIsStillInProgress(g))
          /\ WF_vars(GetImage(g))

SpecLive == Spec /\ Fairness

(* The same composition up to the return of Application.Run, for clients   *)
(* that send asynchronous requests for one URL.                            *)

NextRun ==
    \/ \E c \in Clients : MakeResizeHandler(c, {<<"a">>}, Dims, {"true"})
    \/ \E c \in Clients : ProcessResizes(c)
    \/ \E c \in Clients : processResizesAsyncContains(c)
    \/ \E c \in Clients : processResizesAsyncStore(c)
    \/ \E j \in 1..Len(jobs) : workerResize(j)
    \/ \E j \in 1..Len(jobs) : workerStore(j)
    \/ \E j \in 1..Len(jobs) : workerDelete(j)
    \/ \E j \in 1..Len(jobs) : Close(j)
    \/ \E g \in Getters : MakeGetImageHandler(g)
    \/ \E g \in Getters : cancel(g)
    \/ \E g \in Getters : waitIfImageIsStillInProgress(g)
    \/ \E g \in Getters : GetImage(g)
    \/ RunCancel
    \/ getWorkerWorkStream
    \/ startWorkerCleaner

(* Every goroutine that can run is run, the bridge and the cleaner too.    *)
FairnessRun ==
    /\ Fairness
    /\ WF_vars(getWorkerWorkStream)
    /\ WF_vars(startWorkerCleaner)

SpecRun == Init /\ [][NextRun]_vars /\ FairnessRun

(* The same composition for clients that ask for one URL in either of two  *)
(* sizes, synchronously or asynchronously.                                 *)

NextDims ==
    \/ \E c \in Clients : MakeResizeHandler(c, {<<"a">>}, TwoDims, {None, "true"})
    \/ \E c \in Clients : ProcessResizes(c)
    \/ \E c \in Clients : processResizesSyncContains(c)
    \/ \E c \in Clients : processResizesSyncResize(c)
    \/ \E c \in Clients : processResizesSyncStore(c)
    \/ \E c \in Clients : processResizesAsyncContains(c)
    \/ \E c \in Clients : processResizesAsyncStore(c)
    \/ \E j \in 1..Len(jobs) : workerResize(j)
    \/ \E j \in 1..Len(jobs) : workerStore(j)
    \/ \E j \in 1..Len(jobs) : workerDelete(j)
    \/ \E j \in 1..Len(jobs) : Close(j)
    \/ \E g \in Getters : MakeGetImageHandler(g)
    \/ \E g \in Getters : cancel(g)
    \/ \E g \in Getters : waitIfImageIsStillInProgress(g)
    \/ \E g \in Getters : GetImage(g)

SpecDims == Init /\ [][NextDims]_vars

(* The same composition with the clock running, for clients that send only *)
(* synchronous requests for one URL.                                       *)

NextTTL ==
    \/ \E c \in Clients : MakeResizeHandler(c, {<<"a">>}, Dims, {None})
    \/ \E c \in Clients : ProcessResizes(c)
    \/ \E c \in Clients : processResizesSyncContains(c)
    \/ \E c \in Clients : processResizesSyncResize(c)
    \/ \E c \in Clients : processResizesSyncStore(c)
    \/ \E g \in Getters : MakeGetImageHandler(g)
    \/ \E g \in Getters : cancel(g)
    \/ \E g \in Getters : GetImage(g)
    \/ tick

SpecTTL == Init /\ [][NextTTL]_vars

(* The Service with StartCacheEviction called as well, under the same      *)
(* context, as a program other than Application.Run may do; the clients    *)
(* send synchronous requests for one URL, either of two.                   *)

NextEviction ==
    \/ \E c \in Clients : MakeResizeHandler(c, {<<"a">>, <<"b">>}, Dims, {None})
    \/ \E c \in Clients : ProcessResizes(c)
    \/ \E c \in Clients : processResizesSyncContains(c)
    \/ \E c \in Clients : processResizesSyncResize(c)
    \/ \E c \in Clients : processResizesSyncStore(c)
    \/ \E g \in Getters : MakeGetImageHandler(g)
    \/ \E g \in Getters : cancel(g)
    \/ \E g \in Getters : GetImage(g)
    \/ tick
    \/ StartCacheEviction
    \/ sweepTick
    \/ \E key \in Keys : sweepVisit(key)
    \/ sweepDelete
    \/ sweepEnd
    \/ RunCancel
    \/ sweepDone

SpecEviction == Init /\ [][NextEviction]_vars

----------------------------------------------------------------------------
(* What is checked of the model.                                           *)

TrueStrings == {"1", "t", "T", "TRUE", "true", "True"}

(* Somebody is between the cache.Add and the cacheDeadline.Store of        *)
(* resizeAndCache for key.                                                 *)
caching(key) ==
    \/ \E c \in Clients : req[c].pc = "stamp" /\ genKey(currentURL(req[c])) = key
    \/ \E j \in 1..Len(jobs) : jobs[j].pc = "stamp" /\ jobs[j].key = key

(* C1: for every key, at most one worker is executing fetch/transform at   *)
(* any instant: asynchronous requests for a URL whose key is neither       *)
(* cached nor finished start one worker only.                              *)
C1_OneWorkerPerKey ==
    \A j1, j2 \in 1..Len(jobs) :
        (j1 # j2 /\ jobs[j1].key = jobs[j2].key)
            => ~(jobs[j1].pc = "run" /\ jobs[j2].pc = "run")

(* C2, as claimed: a GetImage call that found an in-flight job and whose   *)
(* context was cancelled before the job's signal fired returns the         *)
(* caller-cancelled outcome.                                               *)
C2_CancelledBeforeSignal ==
    \A g \in Getters :
        (get[g].pc = "done" /\ get[g].ctxFirst)
            => (get[g].err = errContextCancelled /\ get[g].data = NoData)

(* C2, as amended: a waiting call whose context is cancelled can always    *)
(* return, whether or not the job has finished; when the signal has not    *)
(* fired as its select runs, it returns the caller-cancelled outcome with  *)
(* nil data and 408, and the cache is not read.                            *)
C2_CancelledWaitReturns ==
    /\ [](\A g \in Getters :
            (get[g].pc = "wait" /\ get[g].cancelled)
                => ENABLED waitIfImageIsStillInProgress(g))
    /\ [][\A g \in Getters :
            (/\ get[g].pc = "wait"
             /\ get[g].cancelled
             /\ ~jobs[get[g].job].done
             /\ get'[g] # get[g])
                => (/\ get'[g].pc = "done"
                    /\ get'[g].err = errContextCancelled
                    /\ get'[g].data = NoData
                    /\ get'[g].status = StatusRequestTimeout
                    /\ cache' = cache)]_vars

(* A call has returned the caller-cancelled outcome while the job it       *)
(* waited for is still unfinished.                                         *)
C2_Witness ==
    \E g \in Getters :
        /\ get[g].pc = "done"
        /\ get[g].err = errContextCancelled
        /\ get[g].job # NoJob
        /\ ~jobs[get[g].job].done

(* C3: once a sweep interval has passed after insertionTime + TTL, a       *)
(* GetImage for the key of a cached entry returns not found.               *)
C3_ExpiredEntryNotFound ==
    [][\A g \in Getters :
          (/\ get[g].pc = "read"
           /\ get'[g].pc = "done"
           /\ cacheDeadline[get[g].key] # NoTime
           /\ cacheDeadline[get[g].key] + TTL + SweepInterval < now
           /\ ~caching(get[g].key))
              => get'[g].status = StatusNotFound]_vars

(* C4: the bytes a worker or a synchronous request has cached under a key  *)
(* are in the cache as produced, and as long as the key is in the cache a  *)
(* GetImage for it that reaches its read returns exactly the bytes the     *)
(* cache holds for the key, with no error and 200.                         *)
C4_RoundTrip ==
    /\ [][\A c \in Clients :
            (req[c].pc = "resize" /\ req'[c].pc = "stamp")
                => cacheLookup(cache', genKey(currentURL(req[c])))
                       = resize(currentURL(req[c]), req[c].dims)]_vars
    /\ [][\A j \in 1..Len(jobs) :
            (jobs[j].pc = "run" /\ jobs'[j].pc = "stamp")
                => cacheLookup(cache', jobs[j].key) = resize(jobs[j].url, jobs[j].dims)]_vars
    /\ [][\A g \in Getters :
            (get[g].pc = "read" /\ get'[g].pc = "done" /\ cacheContains(cache, get[g].key))
                => (/\ get'[g].data = cacheLookup(cache, get[g].key)
                    /\ get'[g].data \in {resize(u, d) : u \in {x \in URLs : genKey(x) = get[g].key},
                                                       d \in Dims}
                    /\ get'[g].err = None
                    /\ get'[g].status = StatusOK)]_vars

(* A GetImage has returned the bytes that a worker produced for its key.   *)
C4_Witness ==
    \E g \in Getters, j \in 1..Len(jobs) :
        /\ get[g].pc = "done"
        /\ get[g].status = StatusOK
        /\ jobs[j].key = get[g].key
        /\ jobs[j].pc \in {"delete", "close", "exit"}
        /\ ~jobs[j].err
        /\ get[g].data = resize(jobs[j].url, jobs[j].dims)

(* C5: an asynchronous request that finds the key of its URL in the cache  *)
(* reports success with cached true and the URL, starts no worker and      *)
(* leaves the registry as it is.                                           *)
C5_AsyncCached ==
    [][\A c \in Clients :
          (/\ req[c].pc = "check"
           /\ req[c].Async
           /\ cacheContains(cache, genKey(currentURL(req[c])))
           /\ req'[c] # req[c])
              => (/\ req'[c].results =
                        Append(req[c].results,
                               [Result |-> success,
                                URL |-> newURL(genKey(currentURL(req[c]))),
                                Cached |-> TRUE])
                  /\ jobs' = jobs
                  /\ workers' = workers)]_vars

(* An asynchronous request has reported a URL as cached.                   *)
C5_Witness ==
    \E c \in Clients :
        /\ req[c].Async
        /\ \E i \in 1..Len(req[c].results) :
              req[c].results[i].Result = success /\ req[c].results[i].Cached

(* C6: ProcessResizes, synchronous or asynchronous, returns with no error  *)
(* one result per input URL in input order (none for an empty list); a     *)
(* result that is not a failure carries the URL of its key, a failure      *)
(* carries none, and a failure does not end the batch.                     *)
C6_OneResultPerURL ==
    \A c \in Clients :
        LET r == req[c]
        IN  /\ r.pc \in {"check", "resize", "stamp", "store"} => Len(r.results) = r.i
            /\ r.pc \in {"check", "resize", "stamp", "store"} => r.i < Len(r.urls)
            /\ (r.pc = "done" /\ r.status \notin {StatusNotFound, StatusBadRequest})
                  => (r.status = StatusCreated /\ Len(r.results) = Len(r.urls))
            /\ \A i \in 1..Len(r.results) :
                  /\ r.results[i].Result \in {success, inProgress, failure}
                  /\ r.results[i].Result # failure
                        => r.results[i].URL = newURL(genKey(r.urls[i]))
                  /\ r.results[i].Result = failure => r.results[i].URL = NoURL

(* A synchronous request has gone on to its second URL after the first     *)
(* one failed.                                                             *)
C6_Witness ==
    \E c \in Clients :
        /\ req[c].pc = "done"
        /\ Len(req[c].results) = 2
        /\ req[c].urls[1] # req[c].urls[2]
        /\ req[c].results[1].Result = failure
        /\ req[c].results[2].Result = success

(* Nobody has cached key so far, as far as the state shows: every worker   *)
(* for it is still running or has failed, and the request in progress has  *)
(* neither cached it nor found it cached.                                  *)
neverCached(key) ==
    /\ \A j \in 1..Len(jobs) :
          jobs[j].key = key => (jobs[j].pc = "run" \/ jobs[j].err)
    /\ \A c \in Clients :
          /\ ~(req[c].pc = "stamp" /\ genKey(currentURL(req[c])) = key)
          /\ \A i \in 1..Len(req[c].results) :
                ~(req[c].results[i].Result = success /\ genKey(req[c].urls[i]) = key)

(* C7: a job whose fetch or transform fails changes neither the cache nor  *)
(* the timestamp table, and the synchronous result for its URL is failure; *)
(* while nobody has cached the key it is neither cached nor stamped, and a *)
(* GetImage that found no registry entry for it returns not found.         *)
C7_FailureCachesNothing ==
    /\ [][\A j \in 1..Len(jobs) :
            ((jobs[j].err \/ jobs'[j].err) /\ jobs'[j] # jobs[j])
                => (cache' = cache /\ cacheDeadline' = cacheDeadline)]_vars
    /\ [][\A c \in Clients :
            (req[c].pc = "resize" /\ req'[c].pc # "stamp" /\ req'[c] # req[c])
                => (/\ cache' = cache
                    /\ cacheDeadline' = cacheDeadline
                    /\ req'[c].results =
                          Append(req[c].results,
                                 [Result |-> failure, URL |-> NoURL, Cached |-> FALSE]))]_vars
    /\ [](\A key \in Keys :
            (posts <= 1 /\ neverCached(key))
                => (/\ ~cacheContains(cache, key)
                    /\ cacheDeadline[key] = NoTime
                    /\ \A g \in Getters :
                          (get[g].pc = "done" /\ get[g].key = key /\ get[g].job = NoJob)
                              => (/\ get[g].data = NoData
                                  /\ get[g].err = None
                                  /\ get[g].status = StatusNotFound)))

(* A worker has failed and left, the registry has no entry for its key,    *)
(* and a GetImage for the key is about to read the cache.                  *)
C7_Witness ==
    \E g \in Getters, j \in 1..Len(jobs) :
        /\ jobs[j].err
        /\ jobs[j].pc = "exit"
        /\ workers[jobs[j].key] = NoJob
        /\ get[g].pc = "read"
        /\ get[g].key = jobs[j].key
        /\ get[g].job = NoJob
        /\ posts <= 1
        /\ neverCached(jobs[j].key)

(* C8: for a URL whose key is not cached an asynchronous request starts a  *)
(* worker and emits in-progress, cached false and the URL; none of its     *)
(* steps waits for a worker; a later step of a worker does not change a    *)
(* response already written.                                               *)
C8_AsyncInProgress ==
    /\ [](\A c \in Clients :
            (req[c].Async /\ req[c].pc \in {"check", "store"})
                => ENABLED (processResizesAsyncContains(c) \/ processResizesAsyncStore(c)))
    /\ [][\A c \in Clients :
            (/\ req[c].pc = "check"
             /\ req[c].Async
             /\ ~cacheContains(cache, genKey(currentURL(req[c])))
             /\ req'[c] # req[c])
                => (/\ req'[c].pc = "store"
                    /\ Len(jobs') = Len(jobs) + 1
                    /\ jobs'[Len(jobs')].pc = "run"
                    /\ jobs'[Len(jobs')].key = genKey(currentURL(req[c])))]_vars
    /\ [][\A c \in Clients :
            (req[c].pc = "store" /\ req'[c] # req[c])
                => req'[c].results =
                      Append(req[c].results,
                             [Result |-> inProgress,
                              URL |-> newURL(genKey(currentURL(req[c]))),
                              Cached |-> FALSE])]_vars
    /\ [][\A c \in Clients :
            (req[c].pc = "done" /\ posts' = posts) => req'[c] = req[c]]_vars

(* An asynchronous request has been answered with in-progress while the    *)
(* worker it started is still fetching.                                    *)
C8_Witness ==
    \E c \in Clients, j \in 1..Len(jobs) :
        /\ req[c].pc = "done"
        /\ req[c].Async
        /\ \E i \in 1..Len(req[c].results) :
              /\ req[c].results[i].Result = inProgress
              /\ genKey(req[c].urls[i]) = jobs[j].key
        /\ jobs[j].pc = "run"

(* C9: GetImage ends in one of three outcomes, which the handler keeps     *)
(* apart: errContextCancelled with nil data after a wait (408), nil data   *)
(* and no error (404), bytes and no error (200).                           *)
C9_ThreeOutcomes ==
    \A g \in Getters :
        get[g].pc = "done" =>
            /\ get[g].err \in {None, errContextCancelled}
            /\ get[g].status \in {StatusOK, StatusNotFound, StatusRequestTimeout}
            /\ get[g].status = StatusRequestTimeout
                  <=> get[g].err = errContextCancelled
            /\ get[g].err = errContextCancelled
                  => (get[g].data = NoData /\ get[g].cancelled /\ get[g].job # NoJob)
            /\ get[g].status = StatusNotFound
                  <=> (get[g].err = None /\ get[g].data = NoData)
            /\ get[g].status = StatusOK
                  <=> (get[g].err = None /\ get[g].data # NoData)

(* A GetImage has ended with the caller-cancelled outcome and 408.         *)
C9_Witness ==
    \E g \in Getters :
        /\ get[g].pc = "done"
        /\ get[g].err = errContextCancelled
        /\ get[g].status = StatusRequestTimeout

(* C10: a request is processed asynchronously exactly when the async query *)
(* parameter is present and parses as true, whatever the body says: the    *)
(* handler sets request.Async so, the flag stays as set while the request  *)
(* is processed, and only a request with the flag set takes the            *)
(* asynchronous path.                                                      *)
C10_AsyncOnlyByQuery ==
    /\ [](\A c \in Clients :
            /\ req[c].pc = "call" => (req[c].Async <=> req[c].query \in TrueStrings)
            /\ req[c].pc \in {"resize", "stamp"} => ~req[c].Async
            /\ req[c].pc = "store" => req[c].Async
            /\ (\E i \in 1..Len(req[c].results) : req[c].results[i].Result = inProgress)
                  => req[c].Async)
    /\ [][\A c \in Clients :
            req[c].pc \notin {"idle", "done"} => req'[c].Async = req[c].Async]_vars

(* A request whose async parameter is not a boolean is about to be         *)
(* processed synchronously.                                                *)
C10_Witness ==
    \E c \in Clients :
        /\ req[c].pc = "call"
        /\ req[c].query = "yes"
        /\ ~req[c].Async

(* A request is between the start of a worker for key and the workers.Store *)
(* of its entry.                                                           *)
dispatching(key) ==
    \E c \in Clients : req[c].pc = "store" /\ genKey(currentURL(req[c])) = key

(* C11: a registry entry for a key exists only while a worker for the key  *)
(* runs: once every worker started for the key has finished, and no        *)
(* request is still between starting a worker for it and storing the       *)
(* entry, the registry holds no entry for the key.                         *)
C11_NoEntryAfterWorkers ==
    \A key \in Keys :
        (/\ ~dispatching(key)
         /\ \A j \in 1..Len(jobs) : jobs[j].key = key => jobs[j].pc = "exit")
            => workers[key] = NoJob

(* C12: a GetImage call with a live context, made for a key while a worker *)
(* an answered asynchronous request started for the key is still fetching, *)
(* finds a registry entry of an unfinished job and waits.                  *)
C12_GetWaitsForRunningWorker ==
    [][\A g \in Getters :
          (/\ get[g].pc \in {"idle", "done"}
           /\ get'[g].pc \in {"wait", "read"}
           /\ ~get'[g].cancelled
           /\ \A c \in Clients : req[c].pc \in {"idle", "done"}
           /\ \E j \in 1..Len(jobs) : jobs[j].key = get'[g].key /\ jobs[j].pc = "run")
              => (/\ get'[g].pc = "wait"
                  /\ ~jobs[get'[g].job].done)]_vars

(* C13: a worker writes the cache and the timestamp before its signal     *)
(* fires: a signal is fired by a worker that has left; once the signal of  *)
(* a job that succeeded has fired, its key is stamped, and is in the cache *)
(* unless the cache is full of other keys (capacity eviction, the only way *)
(* out of the cache here); a GetImage call leaves its wait without being   *)
(* cancelled only when the signal has fired, and then returns the cached   *)
(* bytes, or not found when the key has been evicted.                      *)
C13_CacheBeforeSignal ==
    /\ [](\A j \in 1..Len(jobs) : jobs[j].done => jobs[j].pc = "exit")
    /\ [](\A j \in 1..Len(jobs) :
            (jobs[j].done /\ ~jobs[j].err)
                => (/\ cacheDeadline[jobs[j].key] # NoTime
                    /\ cacheContains(cache, jobs[j].key) \/ Len(cache) = CacheSize))
    /\ [][\A g \in Getters :
            (get[g].pc = "wait" /\ get'[g].pc = "read") => jobs[get[g].job].done]_vars
    /\ [][\A g \in Getters :
            (/\ get[g].pc = "read"
             /\ get'[g].pc = "done"
             /\ get[g].job # NoJob
             /\ ~jobs[get[g].job].err)
                => \/ /\ get'[g].status = StatusOK
                      /\ get'[g].data = cacheLookup(cache, get[g].key)
                      /\ get'[g].data # NoData
                   \/ /\ get'[g].status = StatusNotFound
                      /\ ~cacheContains(cache, get[g].key)
                      /\ Len(cache) = CacheSize]_vars

(* A GetImage call that waited with a live context for a job that          *)
(* succeeded has returned bytes.                                           *)
C13_Witness ==
    \E g \in Getters :
        /\ get[g].pc = "done"
        /\ get[g].job # NoJob
        /\ ~get[g].cancelled
        /\ jobs[get[g].job].done
        /\ ~jobs[get[g].job].err
        /\ get[g].status = StatusOK

(* C14: with workers that terminate, every GetImage call that found a      *)
(* registry entry returns, cancelled or not, also when the signal of the   *)
(* entry had fired before the call began to wait; a signal that has fired  *)
(* stays fired.                                                            *)
C14_GetImageReturns ==
    /\ \A g \in Getters : (get[g].pc = "wait") ~> (get[g].pc = "done")
    /\ [][\A j \in 1..Len(jobs) : jobs[j].done => jobs'[j].done]_vars

(* A GetImage call whose context is live has found the entry of a job      *)
(* whose signal has fired already, and is about to wait.                   *)
C14_Witness ==
    \E g \in Getters :
        /\ get[g].pc = "wait"
        /\ ~get[g].cancelled
        /\ jobs[get[g].job].done
        /\ workers[get[g].key] = get[g].job

(* C15: every signal is closed exactly once, by its own worker: a signal   *)
(* changes only by the Close step of the worker that owns it, a step that  *)
(* is no request's, no GetImage call's and no registry update; no Close is *)
(* possible on a signal that has fired; the signal of a worker that has    *)
(* finished has fired.                                                     *)
C15_ClosedOnceByWorker ==
    /\ [][\A j \in 1..Len(jobs) :
            jobs'[j].done # jobs[j].done
                => (/\ ~jobs[j].done
                    /\ jobs[j].pc = "close"
                    /\ jobs'[j].pc = "exit"
                    /\ \A k \in 1..Len(jobs) : k # j => jobs'[k] = jobs[k]
                    /\ req' = req
                    /\ get' = get
                    /\ workers' = workers)]_vars
    /\ [](\A j \in 1..Len(jobs) : jobs[j].done => ~ENABLED Close(j))
    /\ [](\A j \in 1..Len(jobs) : jobs[j].pc = "exit" => jobs[j].done)

(* A worker whose fetch failed has closed its signal, and the GetImage     *)
(* call that waited for it has returned.                                   *)
C15_Witness ==
    \E g \in Getters, j \in 1..Len(jobs) :
        /\ jobs[j].pc = "exit"
        /\ jobs[j].err
        /\ jobs[j].done
        /\ get[g].job = j
        /\ get[g].pc = "done"
        /\ ~get[g].cancelled

(* C16: a sweep tick never removes from the cache a key whose              *)
(* insertionTime + TTL is still in the future.                             *)
C16_SweepKeepsUnexpired ==
    [][\A key \in Keys :
          (/\ sweep' # sweep
           /\ cacheContains(cache, key)
           /\ ~cacheContains(cache', key))
              => (/\ cacheDeadline[key] # NoTime
                  /\ cacheDeadline[key] + TTL <= now)]_vars

(* C17: when a sweep tick ends, no key that had expired before the tick    *)
(* began and that the cache no longer holds (the cache has evicted it by   *)
(* its own policy) is left in the timestamp table.                         *)
C17_SweepDropsEvictedExpired ==
    [][(sweep.pc = "range" /\ sweep'.pc = "sleep")
          => \A key \in Keys :
                ~(/\ cacheDeadline[key] # NoTime
                  /\ cacheDeadline[key] + TTL < sweep.next
                  /\ ~cacheContains(cache, key))]_vars

(* C18: the bridge, the cleaner and the TTL sweep are each started at      *)
(* startup under the one context, and once the context is cancelled each   *)
(* of them terminates.                                                     *)
C18_BackgroundTasksStartAndStop ==
    /\ [](/\ workerHandler.bridge \in {"select", "exit"}
          /\ workerHandler.cleaner \in {"select", "exit"}
          /\ sweep.pc # "off")
    /\ workerHandler.cancelled
          ~> (/\ workerHandler.bridge = "exit"
              /\ workerHandler.cleaner = "exit"
              /\ sweep.pc = "exit")

(* C19: no step of a synchronous request changes the registry, starts a   *)
(* worker or closes a signal, whatever the cache and the registry hold;    *)
(* it changes the cache only by the Add of the bytes it resized and the    *)
(* timestamp table only by the Store for the key it has just added, and    *)
(* a failed resize changes neither.                                        *)
C19_SyncLeavesRegistry ==
    [][\A c \in Clients :
          (/\ ~req[c].Async
           /\ req[c].pc \in {"call", "check", "resize", "stamp"}
           /\ req'[c] # req[c])
              => LET url == currentURL(req[c])
                     key == genKey(url)
                 IN  /\ workers' = workers
                     /\ jobs' = jobs
                     /\ cache' # cache
                           => (/\ req[c].pc = "resize"
                               /\ req'[c].pc = "stamp"
                               /\ cache' = cacheAdd(cache, key, resize(url, req[c].dims)))
                     /\ cacheDeadline' # cacheDeadline
                           => (/\ req[c].pc = "stamp"
                               /\ cacheDeadline' = [cacheDeadline EXCEPT ![key] = now])
                     /\ (req[c].pc = "resize" /\ req'[c].pc # "stamp")
                           => (cache' = cache /\ cacheDeadline' = cacheDeadline)]_vars

(* A synchronous request has resized and cached a URL while the registry   *)
(* held the entry of a worker for the same key, which is still there.      *)
C19_Witness ==
    \E c \in Clients :
        /\ req[c].pc = "done"
        /\ ~req[c].Async
        /\ \E i \in 1..Len(req[c].results) :
              /\ req[c].results[i].Result = success
              /\ ~req[c].results[i].Cached
              /\ workers[genKey(req[c].urls[i])] # NoJob
              /\ jobs[workers[genKey(req[c].urls[i])]].pc = "run"

(* C20: when nobody is between the cache.Add and the cacheDeadline.Store   *)
(* of resizeAndCache, and the sweep is not between its cache.Remove and    *)
(* its cacheDeadline.Delete, every key in the cache has a timestamp.       *)
C20_CachedKeysAreStamped ==
    ((\A key \in Keys : ~caching(key)) /\ sweep.pc # "delete")
        => \A key \in Keys : cacheContains(cache, key) => cacheDeadline[key] # NoTime

(* C21: when ProcessResizes has reported success for a URL in a request    *)
(* with width w and height h, the bytes GetImage then serves for the URL   *)
(* it returned are that URL's image resized to (w, h).                     *)
C21_ServesRequestedDimensions ==
    [][\A g \in Getters, c \in Clients :
          (/\ get[g].pc = "read"
           /\ get'[g].pc = "done"
           /\ get'[g].status = StatusOK
           /\ req[c].pc = "done")
              => \A i \in 1..Len(req[c].results) :
                    (/\ req[c].results[i].Result = success
                     /\ req[c].results[i].URL = newURL(get[g].key))
                        => get'[g].data = resize(req[c].urls[i], req[c].dims)]_vars

====
